---- MODULE Spec2Model ----
(***************************************************************************)
(* Model of src/sst_timeseries_graph.py: the monthly date axis, the point  *)
(* fetcher, the sequential series collector, the chart renderer's filter   *)
(* and title, and main's exit codes.                                       *)
(*                                                                         *)
(* Floating point quantities are carried in hundredths (38.13 -> 3813).    *)
(* A Python optional value is a record [tag, v]: None is tag "None".       *)
(***************************************************************************)
EXTENDS Integers, Sequences, FiniteSets, TLC

\* ------------------------------------------------------------------------
\* Bounds of the model
\* ------------------------------------------------------------------------
\* How many of the last years datetime supports a run may be given.
LastYears == 2
\* How many fetches of one run the transport may answer with something other
\* than the nominal success payload.
MaxOffNominal == 1

\* ------------------------------------------------------------------------
\* Program and library constants
\* ------------------------------------------------------------------------
\* datetime.MINYEAR / datetime.MAXYEAR: datetime(...) raises ValueError outside.
MINYEAR == 1
MAXYEAR == 9999
\* argparse defaults of --start-year / --end-year, and the default location.
DEFAULT_START_YEAR == 1981
\* The years written into the chart title (line 240).
TITLE_FROM_YEAR == 1981
TITLE_TO_YEAR == 2025
DEFAULT_LAT == 3813
DEFAULT_LON == 413

\* ------------------------------------------------------------------------
\* Optional values
\* ------------------------------------------------------------------------
None == [tag |-> "None", v |-> 0]
Float(x) == [tag |-> "float", v |-> x]

\* ------------------------------------------------------------------------
\* datetime
\* ------------------------------------------------------------------------
IsLeap(y) == (y % 4 = 0 /\ y % 100 # 0) \/ y % 400 = 0

DaysInMonth(y, m) ==
    IF m = 2 THEN (IF IsLeap(y) THEN 29 ELSE 28)
    ELSE IF m \in {4, 6, 9, 11} THEN 30 ELSE 31

\* datetime(y, m, d) succeeds exactly for these arguments, else ValueError.
DatetimeOk(y, m, d) ==
    /\ y \in MINYEAR..MAXYEAR
    /\ m \in 1..12
    /\ d \in 1..DaysInMonth(y, m)

datetime(y, m, d) == [year |-> y, month |-> m, day |-> d]

\* a <= b on datetime values
DateLe(a, b) ==
    \/ a.year < b.year
    \/ a.year = b.year /\ a.month < b.month
    \/ a.year = b.year /\ a.month = b.month /\ a.day <= b.day

\* strftime('%Y-%m-%d'): the text "YYYY-MM-DD" as its three numeric fields.
strftime(d) == <<d.year, d.month, d.day>>

\* strptime(s, '%Y-%m-%d'): %Y wants four digits; the fields must be a date.
StrptimeOk(s) == s[1] >= 1000 /\ DatetimeOk(s[1], s[2], s[3])
strptime(s) == datetime(s[1], s[2], s[3])

\* ------------------------------------------------------------------------
\* generate_monthly_dates
\* ------------------------------------------------------------------------
\* The while loop: append the current date, then build the first of the next
\* month (which raises ValueError when that date does not exist).
RECURSIVE MonthlyLoop(_, _, _)
MonthlyLoop(current_date, end_date, dates) ==
    IF ~DateLe(current_date, end_date)
    THEN [raised |-> "none", dates |-> dates]
    ELSE LET appended == Append(dates, strftime(current_date))
             ny == IF current_date.month = 12 THEN current_date.year + 1
                   ELSE current_date.year
             nm == IF current_date.month = 12 THEN 1
                   ELSE current_date.month + 1
         IN  IF ~DatetimeOk(ny, nm, 1)
             THEN [raised |-> "ValueError", dates |-> appended]
             ELSE MonthlyLoop(datetime(ny, nm, 1), end_date, appended)

generate_monthly_dates(start_year, end_year) ==
    IF ~DatetimeOk(start_year, 1, 1) \/ ~DatetimeOk(end_year, 12, 31)
    THEN [raised |-> "ValueError", dates |-> <<>>]
    ELSE MonthlyLoop(datetime(start_year, 1, 1), datetime(end_year, 12, 31), <<>>)

\* ------------------------------------------------------------------------
\* The transport: what requests.get(...) does for one request
\* ------------------------------------------------------------------------
\* A JSON member of the payload: missing, null or a number.
Missing == [tag |-> "missing", v |-> 0]
Null == [tag |-> "null", v |-> 0]
Num(x) == [tag |-> "float", v |-> x]

\* kind: "response" (a response came back), "RequestException" (timeout,
\* connection error, ...) or "KeyboardInterrupt" (Ctrl-C while in flight).
\* json: "invalid" (body is not JSON), "array" (JSON, not an object), "object".
\* status: the payload's "status" member; data: "missing", "null" or "object".
Event(kind, status_code, json, status, data, temperature, anomaly) ==
    [kind |-> kind, status_code |-> status_code, json |-> json,
     status |-> status, data |-> data,
     temperature |-> temperature, anomaly |-> anomaly]

NoEvent == Event("none", 0, "none", "none", "none", Missing, Missing)
InterruptEvent == Event("KeyboardInterrupt", 0, "none", "none", "none", Missing, Missing)

\* The k-th call (0-based) of a healthy service: temperature 20.00 + 0.01*k,
\* anomaly 0.50.
NominalTemperature(k) == Num(2000 + k)
NominalAnomaly == Num(50)
Nominal(k) ==
    Event("response", 200, "object", "success", "object",
          NominalTemperature(k), NominalAnomaly)

HttpResponse(status_code, json, status, data, temperature, anomaly) ==
    Event("response", status_code, json, status, data, temperature, anomaly)

\* Every other answer the transport can give to the k-th call.
OffNominal(k) ==
    LET members == {Missing, Null, Num(0)}
    IN  {Event("RequestException", 0, "none", "none", "none", Missing, Missing)}
        \cup {HttpResponse(c, "invalid", "none", "none", Missing, Missing) :
                c \in {200, 201, 500}}
        \cup {HttpResponse(c, "object", "success", "object",
                           NominalTemperature(k), NominalAnomaly) : c \in {201, 500}}
        \cup {HttpResponse(200, "array", "none", "none", Missing, Missing)}
        \cup {HttpResponse(200, "object", st, "missing", Missing, Missing) :
                st \in {"error", "missing", "success"}}
        \cup {HttpResponse(200, "object", "error", "object",
                           NominalTemperature(k), NominalAnomaly)}
        \cup {HttpResponse(200, "object", "success", "null", Missing, Missing)}
        \cup {HttpResponse(200, "object", "success", "object", t, a) :
                t \in members, a \in members}

\* ------------------------------------------------------------------------
\* fetch_sst_data
\* ------------------------------------------------------------------------
\* The query parameters that identify the request.
RequestParams(lat, lon, data_type, date) ==
    [lat |-> lat, lon |-> lon, data_type |-> data_type, date |-> date]

\* dict.get(key): the member's value, None when the key is missing (a JSON
\* null decodes to None as well).
DictGet(member) == IF member.tag = "float" THEN Float(member.v) ELSE None

\* Variant: the anomaly branch returns the temperature member as well.
ExtractTemperature(data_type, ev) == DictGet(ev.temperature)

\* Lines 93-96: which member of the data object is returned.
ExtractField(data_type, ev) ==
    IF data_type = "mean" THEN DictGet(ev.temperature) ELSE DictGet(ev.anomaly)

\* Line 89.
StatusOk(status_code) == status_code = 200

\* The body of the try block (lines 82-100): the value returned from inside
\* it, the warnings it logs itself, and the exception it raises, if any.
TryBody(data_type, ev) ==
    IF ev.kind # "response"
    THEN [ret |-> None, warnings |-> 0, exc |-> ev.kind]
    ELSE IF ~StatusOk(ev.status_code)
    THEN [ret |-> None, warnings |-> 1, exc |-> "none"]
    ELSE IF ev.json = "invalid"
    THEN [ret |-> None, warnings |-> 0, exc |-> "JSONDecodeError"]
    ELSE IF ev.json # "object"
    THEN [ret |-> None, warnings |-> 0, exc |-> "AttributeError"]
    ELSE IF ev.status # "success"
    THEN [ret |-> None, warnings |-> 1, exc |-> "none"]
    ELSE IF ev.data = "null"
    THEN [ret |-> None, warnings |-> 0, exc |-> "AttributeError"]
    ELSE [ret |-> ExtractField(data_type, ev), warnings |-> 0, exc |-> "none"]

\* Variant: only "except requests.exceptions.RequestException".
CaughtRequestOnly(exc) == exc \in {"RequestException", "JSONDecodeError"}

\* Variant: a bare "except:", which also catches KeyboardInterrupt.
CaughtAll(exc) == TRUE

\* Lines 102-105: the except clauses catch RequestException and Exception;
\* KeyboardInterrupt derives from BaseException only.
Caught(exc) == exc \in {"RequestException", "JSONDecodeError", "AttributeError"}

fetch_sst_data(lat, lon, data_type, date, ev) ==
    LET b == TryBody(data_type, ev)
    IN  IF b.exc = "none"
        THEN [ret |-> b.ret, warnings |-> b.warnings, raised |-> "none"]
        ELSE IF Caught(b.exc)
        THEN [ret |-> None, warnings |-> b.warnings + 1, raised |-> "none"]
        ELSE [ret |-> None, warnings |-> b.warnings, raised |-> b.exc]

\* ------------------------------------------------------------------------
\* create_graph: filtering and title
\* ------------------------------------------------------------------------
Min(a, b) == IF a <= b THEN a ELSE b

\* zip(a, b) stops at the shorter sequence.
Zip(a, b) == [k \in 1..Min(Len(a), Len(b)) |-> <<a[k], b[k]>>]

\* Variant: "if t" (truthiness), which also drops 0.0.
IsTruthy(x) == x # None /\ x.v # 0

\* "x is not None"
IsNotNone(x) == x # None

\* [d for d, t in zip(dates, values) if t is not None]
DatesWhere(dates, values) ==
    LET kept == SelectSeq(Zip(dates, values), LAMBDA p : IsNotNone(p[2]))
    IN  [k \in 1..Len(kept) |-> kept[k][1]]

\* [t for t in values if t is not None]
ValuesWhere(values) == SelectSeq(values, IsNotNone)

\* The f-string of plt.title: the location is formatted in, the years are text.
Title(lat, lon) ==
    [lat |-> lat, lon |-> lon,
     from_year |-> TITLE_FROM_YEAR, to_year |-> TITLE_TO_YEAR]

NoChart ==
    [written |-> FALSE, title |-> [lat |-> 0, lon |-> 0, from_year |-> 0, to_year |-> 0],
     temp_dates |-> <<>>, temp_values |-> <<>>,
     anom_dates |-> <<>>, anom_values |-> <<>>]

\* ------------------------------------------------------------------------
\* main: exception handlers
\* ------------------------------------------------------------------------
\* Variant: the KeyboardInterrupt handler returns 0.
main_except_quiet(exc) == IF exc = "KeyboardInterrupt" THEN 0 ELSE 1

\* Lines 336-341: both handlers return 1.
main_except(exc) == IF exc = "KeyboardInterrupt" THEN 1 ELSE 1

\* ------------------------------------------------------------------------
\* collect_timeseries_data helpers
\* ------------------------------------------------------------------------
\* Variant: only values that are present are appended.
AppendPresent(values, v) == IF v = None THEN values ELSE Append(values, v)

\* Variant: list.insert(0, v) instead of list.append(v).
InsertFront(values, v) == <<v>> \o values

\* list.append of a fetch result (lines 174 and 179).
AppendResult(values, v) == Append(values, v)

\* The metric requested first and second for each date (lines 173 and 178).
FirstMetric == "mean"
\* Variant: the second call of a date asks for the temperature again.
SecondMetricMean == "mean"
SecondMetric == "anomaly"

\* ------------------------------------------------------------------------
\* State
\* ------------------------------------------------------------------------
VARIABLES
    pc,            \* where main is: collect_start, fetch_mean, fetch_anomaly,
                   \* collect_end, create_graph, show, log_success, done
    lat, lon, start_year, end_year,   \* parsed command line
    dates_str, dates, temperatures, anomalies, i,   \* locals of the collector
    call,          \* the last fetch_sst_data call: arguments, transport event, result
    requests,      \* every request issued to the transport, in order
    outcomes,      \* what each completed fetch_sst_data call returned, in order
    offNominal,    \* off-nominal transport answers so far
    chart,         \* the output artifact
    exit_code,     \* -1 while main runs, then its return value
    raised,        \* the exception that reached main's handlers, or "none"
    interrupted,   \* where a KeyboardInterrupt arrived, or "none"
    completed      \* the functions main called that have returned normally

vars == <<pc, lat, lon, start_year, end_year, dates_str, dates, temperatures,
          anomalies, i, call, requests, outcomes, offNominal, chart,
          exit_code, raised, interrupted, completed>>

args == <<lat, lon, start_year, end_year>>
collector == <<dates_str, dates, temperatures, anomalies, i>>
fetchlog == <<call, requests, outcomes, offNominal>>


\* The year ranges given on the command line: the default start year and
\* the year after it, and the last years a datetime can hold; both orders.
FirstYears == {DEFAULT_START_YEAR, DEFAULT_START_YEAR + 1}
FinalYears == (MAXYEAR - LastYears + 1) .. MAXYEAR

YearRanges == (FirstYears \X FirstYears) \cup (FinalYears \X FinalYears)

NoCall ==
    [data_type |-> "none", date |-> <<0, 0, 0>>, ev |-> NoEvent,
     ret |-> None, warnings |-> 0, raised |-> "none"]

Init ==
    /\ pc = "collect_start"
    /\ lat = DEFAULT_LAT
    /\ lon = DEFAULT_LON
    /\ \E p \in YearRanges : start_year = p[1] /\ end_year = p[2]
    /\ dates_str = <<>>
    /\ dates = <<>>
    /\ temperatures = <<>>
    /\ anomalies = <<>>
    /\ i = 0
    /\ call = NoCall
    /\ requests = <<>>
    /\ outcomes = <<>>
    /\ offNominal = 0
    /\ chart = NoChart
    /\ exit_code = -1
    /\ raised = "none"
    /\ interrupted = "none"
    /\ completed = {}

\* An exception leaves the try block of main: the handler picks the exit code.
Propagate(exc) ==
    /\ pc' = "done"
    /\ raised' = exc
    /\ exit_code' = main_except(exc)

\* Lines 158-165: build the date axis and the empty result lists.
CollectStart ==
    /\ pc = "collect_start"
    /\ LET g == generate_monthly_dates(start_year, end_year)
       IN  IF g.raised # "none"
           THEN /\ Propagate(g.raised)
                /\ UNCHANGED collector
           ELSE IF \E k \in 1..Len(g.dates) : ~StrptimeOk(g.dates[k])
           THEN /\ Propagate("ValueError")
                /\ dates_str' = g.dates
                /\ UNCHANGED <<dates, temperatures, anomalies, i>>
           ELSE /\ dates_str' = g.dates
                /\ dates' = [k \in 1..Len(g.dates) |-> strptime(g.dates[k])]
                /\ temperatures' = <<>>
                /\ anomalies' = <<>>
                /\ i' = 1
                /\ pc' = IF Len(g.dates) = 0 THEN "collect_end" ELSE "fetch_mean"
                /\ UNCHANGED <<raised, exit_code>>
    /\ UNCHANGED <<args, fetchlog, chart, interrupted, completed>>

\* What the transport may do with the k-th request (0-based).
TransportEvents(k) ==
    {Nominal(k), InterruptEvent}
    \cup (IF offNominal < MaxOffNominal THEN OffNominal(k) ELSE {})

\* One fetch_sst_data call for dates_str[i] and its bookkeeping in the log.
Fetch(data_type, ev) ==
    LET r == fetch_sst_data(lat, lon, data_type, dates_str[i], ev)
    IN  /\ requests' = Append(requests, RequestParams(lat, lon, data_type, dates_str[i]))
        /\ call' = [data_type |-> data_type, date |-> dates_str[i], ev |-> ev,
                    ret |-> r.ret, warnings |-> r.warnings, raised |-> r.raised]
        /\ offNominal' = IF ev \in OffNominal(Len(requests))
                         THEN offNominal + 1 ELSE offNominal
        /\ outcomes' = IF r.raised = "none" THEN Append(outcomes, r.ret) ELSE outcomes
        /\ interrupted' = IF ev.kind = "KeyboardInterrupt" THEN "fetch" ELSE interrupted

\* Lines 173-175: fetch the temperature of dates_str[i], append it, sleep.
FetchMean ==
    /\ pc = "fetch_mean"
    /\ \E ev \in TransportEvents(Len(requests)) :
         LET r == fetch_sst_data(lat, lon, FirstMetric, dates_str[i], ev)
         IN  /\ Fetch(FirstMetric, ev)
             /\ IF r.raised # "none"
                THEN /\ Propagate(r.raised)
                     /\ UNCHANGED temperatures
                ELSE /\ temperatures' = AppendResult(temperatures, r.ret)
                     /\ pc' = "fetch_anomaly"
                     /\ UNCHANGED <<raised, exit_code>>
    /\ UNCHANGED <<args, dates_str, dates, anomalies, i, chart, completed>>

\* Lines 178-180 and the loop header: fetch the anomaly of dates_str[i],
\* append it, sleep, go to the next date.
FetchAnomaly ==
    /\ pc = "fetch_anomaly"
    /\ \E ev \in TransportEvents(Len(requests)) :
         LET r == fetch_sst_data(lat, lon, SecondMetric, dates_str[i], ev)
         IN  /\ Fetch(SecondMetric, ev)
             /\ IF r.raised # "none"
                THEN /\ Propagate(r.raised)
                     /\ UNCHANGED <<anomalies, i>>
                ELSE /\ anomalies' = AppendResult(anomalies, r.ret)
                     /\ i' = i + 1
                     /\ pc' = IF i = Len(dates_str) THEN "collect_end" ELSE "fetch_mean"
                     /\ UNCHANGED <<raised, exit_code>>
    /\ UNCHANGED <<args, dates_str, dates, temperatures, chart, completed>>

\* Lines 182-184: log the counts and return (dates, temperatures, anomalies).
CollectEnd ==
    /\ pc = "collect_end"
    /\ pc' = "create_graph"
    /\ completed' = completed \cup {"collect_timeseries_data"}
    /\ UNCHANGED <<args, collector, fetchlog, chart, exit_code, raised, interrupted>>

\* Lines 206-256: filter, plot (x and y of one line must have equal length),
\* title, savefig (which may fail, e.g. on an unwritable output path).
CreateGraph ==
    /\ pc = "create_graph"
    /\ LET temp_dates == DatesWhere(dates, temperatures)
           temp_values == ValuesWhere(temperatures)
           anom_dates == DatesWhere(dates, anomalies)
           anom_values == ValuesWhere(anomalies)
       IN  IF Len(temp_dates) # Len(temp_values) \/ Len(anom_dates) # Len(anom_values)
           THEN /\ Propagate("ValueError")
                /\ UNCHANGED chart
           ELSE \E saved \in BOOLEAN :
                  IF saved
                  THEN /\ chart' = [written |-> TRUE, title |-> Title(lat, lon),
                                    temp_dates |-> temp_dates, temp_values |-> temp_values,
                                    anom_dates |-> anom_dates, anom_values |-> anom_values]
                       /\ pc' = "show"
                       /\ UNCHANGED <<raised, exit_code>>
                  ELSE /\ Propagate("OSError")
                       /\ UNCHANGED chart
    /\ UNCHANGED <<args, collector, fetchlog, interrupted, completed>>

\* Line 259: plt.show() returns.
Show ==
    /\ pc = "show"
    /\ pc' = "log_success"
    /\ completed' = completed \cup {"create_graph"}
    /\ UNCHANGED <<args, collector, fetchlog, chart, exit_code, raised, interrupted>>

\* Lines 333-334: log success, return 0.
LogSuccess ==
    /\ pc = "log_success"
    /\ pc' = "done"
    /\ exit_code' = 0
    /\ UNCHANGED <<args, collector, fetchlog, chart, raised, interrupted, completed>>

\* Ctrl-C while main is anywhere inside its try block, outside a transport
\* call: KeyboardInterrupt is raised at the current statement.
Interrupt ==
    /\ pc # "done"
    /\ Propagate("KeyboardInterrupt")
    /\ interrupted' = pc
    /\ UNCHANGED <<args, collector, fetchlog, chart, completed>>

Next ==
    \/ CollectStart
    \/ FetchMean
    \/ FetchAnomaly
    \/ CollectEnd
    \/ CreateGraph
    \/ Show
    \/ LogSuccess
    \/ Interrupt

Spec == Init /\ [][Next]_vars

\* ========================================================================
\* Properties
\* ========================================================================
\* The collector has returned its three sequences to main.
CollectReturned == "collect_timeseries_data" \in completed

\* The date axis a year range start..end stands for: the first day of every
\* month of every year, as formatted text fields.
ExpectedAxis(s, e) ==
    [k \in 1..(12 * (e - s + 1)) |-> <<s + ((k - 1) \div 12), ((k - 1) % 12) + 1, 1>>]

\* C1: for every start_year <= end_year, generate_monthly_dates returns
\* exactly 12*(end_year-start_year+1) dates, strictly increasing, each the
\* first of a month, none skipped or duplicated, from start_year-01-01 to
\* end_year-12-01. (Stated on the state after the collector has called it.)
C1_DateAxis ==
    (start_year <= end_year /\ pc # "collect_start" /\ interrupted # "collect_start")
        => /\ Len(dates_str) = 12 * (end_year - start_year + 1)
           /\ dates_str = ExpectedAxis(start_year, end_year)

\* C2: when collect_timeseries_data returns, dates, temperatures and
\* anomalies have the same length, the length of the generated date axis,
\* whatever fetches returned absent.
C2_EqualLengths ==
    CollectReturned
        => /\ Len(dates) = Len(dates_str)
           /\ Len(temperatures) = Len(dates_str)
           /\ Len(anomalies) = Len(dates_str)

C2_Witness ==
    /\ pc = "create_graph"
    /\ Len(dates_str) > 0
    /\ \E k \in 1..Len(temperatures) : temperatures[k] = None

\* The failure paths of one fetch: a transport exception, a non-2xx status,
\* a payload that is not JSON or not an object (or whose data member is not
\* an object), an application status other than "success".
FailurePath(ev) ==
    \/ ev.kind = "RequestException"
    \/ /\ ev.kind = "response"
       /\ \/ ev.status_code \notin 200..299
          \/ ev.json # "object"
          \/ ev.status # "success"
          \/ ev.data = "null"

\* C3: a fetch_sst_data call that hits a failure path returns None, lets no
\* error escape, and logs exactly one warning.
C3_FailureIsAbsentWithOneWarning ==
    (call.data_type # "none" /\ FailurePath(call.ev))
        => /\ call.ret = None
           /\ call.raised = "none"
           /\ call.warnings = 1

C3_Witness ==
    /\ call.ev.kind = "response"
    /\ call.ev.status_code = 500
    /\ call.ret = None
    /\ call.warnings = 1
    /\ pc \in {"fetch_mean", "fetch_anomaly", "collect_end"}

\* The payload member the metric of the call stands for.
RequestedMember(c) ==
    IF c.ev.data # "object" THEN Missing
    ELSE IF c.data_type = "mean" THEN c.ev.temperature ELSE c.ev.anomaly

ReturnsRequestedMember(c) ==
    /\ c.raised = "none"
    /\ RequestedMember(c).tag = "float" => c.ret = Float(RequestedMember(c).v)
    /\ c.ret = None <=> RequestedMember(c).tag # "float"

\* C4 as claimed: for every 2xx response whose payload reports "success",
\* the call returns the requested member, absent exactly when it is missing.
C4_Any2xxSuccess ==
    (/\ call.data_type # "none"
     /\ call.ev.kind = "response"
     /\ call.ev.status_code \in 200..299
     /\ call.ev.json = "object"
     /\ call.ev.status = "success")
        => ReturnsRequestedMember(call)

\* C4 amended: for every response with status 200 whose payload reports
\* "success", the call returns the temperature member for 'mean' and the
\* anomaly member for 'anomaly', and None exactly when the payload holds no
\* number there (member missing or null, or no data object), whatever the
\* other metric's member is; a response with any other status, 2xx
\* included, gives None and one warning.
C4_Status200Success ==
    /\ (/\ call.data_type # "none"
        /\ call.ev.kind = "response"
        /\ call.ev.status_code = 200
        /\ call.ev.json = "object"
        /\ call.ev.status = "success")
           => ReturnsRequestedMember(call)
    /\ (call.ev.kind = "response" /\ call.ev.status_code # 200)
           => call.ret = None /\ call.warnings = 1 /\ call.raised = "none"

C4_Witness ==
    /\ call.data_type = "anomaly"
    /\ call.ev.kind = "response"
    /\ call.ev.status_code = 200
    /\ call.ev.status = "success"
    /\ call.ev.temperature.tag = "float"
    /\ call.ev.anomaly = Missing
    /\ call.ret = None
    /\ call.warnings = 0

\* C5: the k-th request (0-based) of a run is for date[k div 2], metric
\* Temperature when k is even and Anomaly when k is odd; a run that
\* completes collection has issued exactly 2N requests, one per pair.
C5_RequestOrder ==
    /\ \A k \in 1..Len(requests) :
         /\ (k + 1) \div 2 <= Len(dates_str)
         /\ requests[k] =
              RequestParams(lat, lon, IF k % 2 = 1 THEN "mean" ELSE "anomaly",
                            dates_str[(k + 1) \div 2])
    /\ CollectReturned => Len(requests) = 2 * Len(dates_str)

C5_Witness ==
    /\ pc = "create_graph"
    /\ Len(requests) = 48
    /\ \E k \in 1..Len(outcomes) : outcomes[k] = None

\* C6: temperatures[n] is the outcome of the Temperature fetch made for
\* dates[n] and anomalies[n] that of the Anomaly fetch made for dates[n],
\* whatever other fetches returned; and when every call k returns
\* temperature 20.00+0.01*k and anomaly 0.50, a 2-year range gives 24
\* entries per sequence, all present, temperatures strictly increasing.
C6_IndexAligned ==
    /\ Len(temperatures) = (Len(outcomes) + 1) \div 2
    /\ Len(anomalies) = Len(outcomes) \div 2
    /\ \A n \in 1..Len(temperatures) :
         /\ requests[2 * n - 1].date = strftime(dates[n])
         /\ requests[2 * n - 1].data_type = "mean"
         /\ temperatures[n] = outcomes[2 * n - 1]
    /\ \A n \in 1..Len(anomalies) :
         /\ requests[2 * n].date = strftime(dates[n])
         /\ requests[2 * n].data_type = "anomaly"
         /\ anomalies[n] = outcomes[2 * n]
    /\ (CollectReturned /\ offNominal = 0 /\ end_year = start_year + 1)
         => /\ Len(dates) = 24 /\ Len(temperatures) = 24 /\ Len(anomalies) = 24
            /\ \A n \in 1..24 :
                 temperatures[n].tag = "float" /\ anomalies[n] = Float(50)
            /\ \A n \in 1..23 : temperatures[n].v < temperatures[n + 1].v

C6_Witness ==
    /\ pc = "create_graph"
    /\ Len(dates) = 24
    /\ \E n \in 1..23 :
         /\ temperatures[n] = None
         /\ anomalies[n] # None
         /\ temperatures[n + 1] # None

BothCompleted == {"collect_timeseries_data", "create_graph"} \subseteq completed

\* C7 as claimed: main ends with exit code 0 if and only if collection and
\* rendering both completed without exception or interrupt; an interrupt or
\* exception during either ends it with exit code 1.
C7_ExitZeroIffBothCompleted ==
    pc = "done"
        => /\ exit_code = 0 <=> BothCompleted
           /\ ~BothCompleted => exit_code = 1

\* C7 amended: main ends with exit code 0 if and only if collection,
\* rendering and the final success log (all of main's try block) completed
\* without exception or interrupt; any exception or interrupt raised inside
\* the try block, one arriving after rendering returned included, ends the
\* run with exit code 1.
C7_ExitZeroIffNothingRaised ==
    pc = "done"
        => /\ exit_code = 0 <=> raised = "none"
           /\ raised # "none" => exit_code = 1
           /\ exit_code = 0 => BothCompleted /\ chart.written
           /\ ~BothCompleted => exit_code = 1

C7_Witness ==
    /\ pc = "done"
    /\ exit_code = 1
    /\ interrupted = "log_success"
    /\ BothCompleted

CollectionPhases ==
    {"collect_start", "fetch", "fetch_mean", "fetch_anomaly", "collect_end"}

\* C8: an interrupt during collection (in flight, during a delay, between
\* fetches) aborts the run: the fetcher does not swallow it, the collector
\* never returns, no chart is written; a chart is written only after all 2N
\* fetches have completed.
C8_InterruptAbortsRun ==
    /\ interrupted \in CollectionPhases
         => /\ pc = "done"
            /\ exit_code = 1
            /\ ~CollectReturned
            /\ ~chart.written
    /\ call.ev.kind = "KeyboardInterrupt" => call.raised = "KeyboardInterrupt"
    /\ chart.written => Len(outcomes) = 2 * Len(dates_str)

C8_Witness ==
    /\ interrupted = "fetch"
    /\ call.data_type = "anomaly"
    /\ Len(temperatures) > Len(anomalies)
    /\ Len(temperatures) < Len(dates_str)
    /\ pc = "done"

\* C9: the chart title names the location and the date range of the run
\* (its start_year and end_year), for every range the run is given.
C9_TitleNamesRunRange ==
    (chart.written /\ start_year <= end_year)
        => chart.title = [lat |-> lat, lon |-> lon,
                          from_year |-> start_year, to_year |-> end_year]

\* Index positions of a sequence whose value is present.
PresentAt(values) == {k \in 1..Len(values) : values[k].tag = "float"}
\* The position index k takes among the present ones.
RankIn(S, k) == Cardinality({j \in S : j <= k})

PlotsExactlyPresent(plot_dates, plot_values, values) ==
    /\ Len(plot_dates) = Cardinality(PresentAt(values))
    /\ Len(plot_values) = Len(plot_dates)
    /\ \A k \in PresentAt(values) :
         /\ plot_dates[RankIn(PresentAt(values), k)] = dates[k]
         /\ plot_values[RankIn(PresentAt(values), k)] = values[k]

\* C10: create_graph plots, for each metric independently, exactly the
\* pairs (dates[n], value[n]) with value[n] present, in index order; dates
\* and values of a metric have equal length; an absent value of one metric
\* does not remove the other's; a present 0 is kept.
C10_FiltersEachMetric ==
    chart.written
        => /\ PlotsExactlyPresent(chart.temp_dates, chart.temp_values, temperatures)
           /\ PlotsExactlyPresent(chart.anom_dates, chart.anom_values, anomalies)

C10_Witness ==
    /\ chart.written
    /\ \E k \in 1..Len(dates) :
         /\ temperatures[k] = None
         /\ anomalies[k] # None
         /\ Len(chart.anom_dates) = Len(dates)
         /\ Len(chart.temp_dates) = Len(dates) - 1

====
